---- MODULE Spec2Model ----
(***************************************************************************)
(* Model of the Opinion.Trade new-market monitor bot                       *)
(* (src/Opinion-New-Market/new-market-code.py).                            *)
(*                                                                         *)
(* The bot runs on one asyncio event loop.  A coroutine runs without       *)
(* interruption until it suspends at an await that really yields (the      *)
(* HTTP fetch, a Telegram send); save_data and load_data contain no such   *)
(* await.  The model therefore lets command handlers run only while the    *)
(* polling job is idle or suspended, and lets the process be killed        *)
(* between any two steps.                                                  *)
(*                                                                         *)
(* Time is counted in ticks of half an hour.                               *)
(***************************************************************************)
EXTENDS Integers, Sequences, FiniteSets, TLC

\* ---------------------------------------------------------------- bounds
MaxUsers == 2
MaxTime == 2
MaxBatch == 2

\* ------------------------------------------------------------- constants
\* timedelta(hours=1), in ticks
COOLDOWN == 2

Users == 1..MaxUsers
Times == 0..MaxTime

\* CATEGORIES.keys()
CATEGORIES ==
  {"politics", "crypto", "sports", "entertainment",
   "technology", "finance", "science", "other"}

\* ------------------------------------------------------------------ text
\* Strings that are searched are sequences of one-character strings.
UpperToLower ==
  [c \in {"B", "T", "C", "V"} |->
     CASE c = "B" -> "b" [] c = "T" -> "t" [] c = "C" -> "c" [] c = "V" -> "v"]

\* str.lower() of one character
LowerChar(c) == IF c \in DOMAIN UpperToLower THEN UpperToLower[c] ELSE c

\* str.lower()
Lower(s) == [i \in 1..Len(s) |-> LowerChar(s[i])]

\* Python's  k in text  for strings: k occurs as a contiguous substring
IsSubstring(k, text) ==
  \E i \in 0..(Len(text) - Len(k)) :
     \A j \in 1..Len(k) : text[i + j] = k[j]

\* ---------------------------------------------------------------- Market
\* A Market as parse_markets builds it.  expiry_aware tells whether the
\* expiry datetime carries a time zone (the source string ended in Z or in
\* an offset) or is naive.  Amounts are in cents.
ApiMarket1 ==
  [id |-> "m1", question |-> <<"B", "T", "C">>, description |-> <<"u", "p">>,
   category |-> "crypto", volume |-> 150000, liquidity |-> 75000,
   expiry_aware |-> TRUE]

ApiMarket2 ==
  [id |-> "m2", question |-> <<"V", "o", "t", "e">>, description |-> <<>>,
   category |-> "politics", volume |-> 0, liquidity |-> 0,
   expiry_aware |-> FALSE]

ApiMarkets == {ApiMarket1, ApiMarket2}

\* The market cmd_test_alert builds: its expiry is datetime.now() + 30 days,
\* a naive datetime.
TestMarket ==
  [id |-> "test_123", question |-> <<"T", "e", "s", "t">>,
   description |-> <<"t", "e", "s", "t">>,
   category |-> "crypto", volume |-> 150050, liquidity |-> 75025,
   expiry_aware |-> FALSE]

MarketIds == {m.id : m \in ApiMarkets} \cup {TestMarket.id}

\* A market whose category is not a key of CATEGORIES
ApiMarket3 ==
  [id |-> "m3", question |-> <<"V", "o", "t", "e">>, description |-> <<>>,
   category |-> "weather", volume |-> 0, liquidity |-> 0,
   expiry_aware |-> TRUE]

RECURSIVE SeqsUpTo(_, _)
SeqsUpTo(S, n) ==
  IF n = 0 THEN {<<>>}
  ELSE LET shorter == SeqsUpTo(S, n - 1)
       IN  shorter \cup {Append(s, x) : s \in shorter, x \in S}

\* ----------------------------------------------------------- raw records
\* A record of the API response.  Every field holds the JSON text of its
\* value, Absent when the record has no such key, Null for JSON null.
Absent == "<absent>"
Null == "<null>"

IsoAware == "2030-01-01T00:00:00Z"
IsoNaive == "2030-01-01T00:00:00"

RawMarket1 ==
  [id |-> "m1", question |-> <<"B", "T", "C">>, description |-> <<"u", "p">>,
   category |-> "Crypto", volume |-> "1500.00", liquidity |-> "750.00",
   expiry |-> IsoAware, created_at |-> IsoAware]

RawMarket2 ==
  [id |-> "m2", question |-> <<"V", "o", "t", "e">>, description |-> <<>>,
   category |-> "politics", volume |-> Absent, liquidity |-> Absent,
   expiry |-> IsoNaive, created_at |-> IsoAware]

RawWeather ==
  [id |-> "m3", question |-> <<"V", "o", "t", "e">>, description |-> <<>>,
   category |-> "Weather", volume |-> "0", liquidity |-> "0",
   expiry |-> IsoAware, created_at |-> IsoAware]

RawNoExpiry == [RawMarket1 EXCEPT !.expiry = Absent]

RawNullCategory == [RawMarket2 EXCEPT !.category = Null]

RawItems == {RawMarket1, RawMarket2, RawWeather, RawNoExpiry, RawNullCategory}

\* float('nan'); the amounts of the model are never negative
NaN == 0 - 1

\* float(x) for the texts the model uses, in cents; a text outside the
\* domain raises ValueError
FloatOf ==
  [x \in {"0", "750.00", "1500.00", "1500.01", "nan"} |->
     CASE x = "0" -> 0
       [] x = "750.00" -> 75000
       [] x = "1500.00" -> 150000
       [] x = "1500.01" -> 150001
       [] x = "nan" -> NaN]

\* a < b on floats: false when one of them is NaN
FloatLess(a, b) == a # NaN /\ b # NaN /\ a < b

\* str.lower() of a category text
CategoryToLower ==
  [c \in {"Crypto", "Weather"} |->
     CASE c = "Crypto" -> "crypto" [] c = "Weather" -> "weather"]

LowerCategory(c) == IF c \in DOMAIN CategoryToLower THEN CategoryToLower[c] ELSE c

NoMarket ==
  [id |-> "", question |-> <<>>, description |-> <<>>, category |-> "",
   volume |-> 0, liquidity |-> 0, expiry_aware |-> FALSE]

\* float(item.get(key, 0)): "ok", "ValueError" or "TypeError"
FloatOutcome(x) ==
  IF x = Absent THEN "ok"
  ELSE IF x = Null THEN "TypeError"
  ELSE IF x \in DOMAIN FloatOf THEN "ok"
  ELSE "ValueError"

FloatValue(x) == IF x = Absent THEN 0 ELSE FloatOf[x]

\* datetime.fromisoformat(item[key].replace('Z', '+00:00')):
\* "ok", "KeyError", "AttributeError" or "ValueError"
DateOutcome(x) ==
  IF x = Absent THEN "KeyError"
  ELSE IF x = Null THEN "AttributeError"
  ELSE IF x \in {IsoAware, IsoNaive} THEN "ok"
  ELSE "ValueError"

\* The exception the Market(...) call of lines 165-176 raises for one
\* record, its arguments being evaluated in the order written, or "none"
MarketException(item) ==
  IF item.id = Absent THEN "KeyError"
  ELSE IF item.category = Null THEN "AttributeError"
  ELSE IF FloatOutcome(item.volume) # "ok" THEN FloatOutcome(item.volume)
  ELSE IF FloatOutcome(item.liquidity) # "ok" THEN FloatOutcome(item.liquidity)
  ELSE IF DateOutcome(item.expiry) # "ok" THEN DateOutcome(item.expiry)
  ELSE IF DateOutcome(item.created_at) # "ok" THEN DateOutcome(item.created_at)
  ELSE "none"

\* The Market the call builds when nothing is raised
MarketOf(item) ==
  [id |-> IF item.id = Null THEN "None" ELSE item.id,
   question |-> item.question,
   description |-> item.description,
   category |-> IF item.category = Absent THEN "other"
                ELSE LowerCategory(item.category),
   volume |-> FloatValue(item.volume),
   liquidity |-> FloatValue(item.liquidity),
   expiry_aware |-> item.expiry = IsoAware]

\* parse_markets: KeyError and ValueError drop the record; any other
\* exception leaves the function, and the markets built so far with it
RECURSIVE parse_markets(_)
parse_markets(items) ==
  IF items = <<>> THEN [raised |-> FALSE, markets |-> <<>>]
  ELSE LET e == MarketException(Head(items))
           rest == parse_markets(Tail(items))
       IN  IF e = "none"
             THEN [raised |-> rest.raised,
                   markets |-> IF rest.raised THEN <<>>
                               ELSE <<MarketOf(Head(items))>> \o rest.markets]
           ELSE IF e \in {"KeyError", "ValueError"} THEN rest
           ELSE [raised |-> TRUE, markets |-> <<>>]

\* What the GET can come to: a timeout or transport error, a status other
\* than 200, a body that is not JSON, or a JSON object with its records
\* (a response with another status may carry records all the same)
FailedResponses ==
  {[kind |-> k, body |-> <<>>] : k \in {"timeout", "malformed"}}
    \cup {[kind |-> "status", body |-> b] : b \in {<<>>, <<RawMarket1>>}}

\* Responses whose records are all well formed, and the failures
Responses ==
  FailedResponses
    \cup {[kind |-> "ok", body |-> b] : b \in SeqsUpTo({RawMarket1, RawMarket2}, MaxBatch)}

\* Responses with any of the raw records, and the failures
RawResponses ==
  FailedResponses \cup {[kind |-> "ok", body |-> b] : b \in SeqsUpTo(RawItems, MaxBatch)}

\* fetch_markets without the test of response.status
FetchMarketsAnyStatus(response) ==
  IF response.kind \notin {"ok", "status"} THEN <<>>
  ELSE LET parsed == parse_markets(response.body)
       IN  IF parsed.raised THEN <<>> ELSE parsed.markets

\* fetch_markets: the parsed markets, the empty list on any failure
fetch_markets(response) ==
  IF response.kind # "ok" THEN <<>>
  ELSE LET parsed == parse_markets(response.body)
       IN  IF parsed.raised THEN <<>> ELSE parsed.markets

\* What fetch_markets can return: a list of parsed markets (the same
\* identifier may occur twice), the empty list on any failure.
FetchResults == {fetch_markets(response) : response \in Responses}

\* ------------------------------------------------------- UserPreferences
NoEntries == [i \in {} |-> [str |-> FALSE, at |-> 0]]

\* /keywords argument lists, already split at commas and stripped
KeywordInputs == {<< <<"b", "T", "c">> >>}

\* The record cmd_start creates
DefaultPreferences ==
  [enabled_categories |-> CATEGORIES,
   keywords |-> <<>>,
   min_liquidity |-> 0,
   min_volume |-> 0,
   notify_on_launch |-> TRUE,
   last_notified |-> NoEntries]

NoUsers == [u \in {} |-> DefaultPreferences]

VARIABLES
  seen_markets,   \* self.seen_markets
  user_prefs,     \* self.user_prefs: user id -> UserPreferences
  data_file,      \* the content of DATA_FILE
  now,            \* the clock
  pc,             \* "down", or where check_new_markets stands
  new_markets,    \* the part of new_markets the loop has not reached yet
  inflight,       \* the send_message call that is awaited, if any
  \* history variables, read by the properties only
  seenAtStart,    \* seen_markets when the running cycle started
  usersAtStart,   \* the subscribers registered when the running cycle started
  api_data,       \* the response the running cycle's GET came to
  cycleFetched,   \* what fetch_markets returned to the running cycle
  cycleNew,       \* new_markets as the running cycle computed it
  cycleAdded,     \* identifiers the running cycle added to the ledger
  cycleAttempts,  \* (subscriber, market) pairs the running cycle passed to send_message
  lostInDispatch, \* identifiers added by a cycle that was killed while dispatching
  lastAlert,      \* the call of send_market_alert the last step made, if it made one
  cycleRetry,     \* the pair whose send had just failed when the running cycle started
  cycleDue,       \* pairs notified a cooldown or more before the running cycle started
  delivered,      \* per pair, when the last send succeeded in this process run
  lastMatch       \* the call of market_matches_preferences the last step made, if any

cycleHist ==
  <<seenAtStart, usersAtStart, api_data, cycleFetched, cycleNew, cycleAdded,
    cycleAttempts, cycleRetry, cycleDue>>

vars ==
  <<seen_markets, user_prefs, data_file, now, pc, new_markets, inflight,
    seenAtStart, usersAtStart, api_data, cycleFetched, cycleNew, cycleAdded,
    cycleAttempts, lostInDispatch, lastAlert, cycleRetry, cycleDue, delivered,
    lastMatch>>

Pairs == Users \X MarketIds

Never == 0 - 1

NoCall == [busy |-> FALSE, user |-> 0, id |-> "", caller |-> ""]

NoAlert ==
  [user |-> 0, id |-> "", caller |-> "", outcome |-> "none",
   notify |-> FALSE, fresh |-> FALSE]

NoResponse == [kind |-> "none", body |-> <<>>]

NoMatch == [called |-> FALSE, market |-> NoMarket, user |-> 0, result |-> FALSE]

\* ----------------------------------------------------------- persistence
\* json.dump(..., default=str): a datetime is written as its string
Stringified(entry) == [str |-> TRUE, at |-> entry.at]

\* The JSON object save_data builds for one subscriber
SerializedPreferences(prefs) ==
  [enabled_categories |-> prefs.enabled_categories,
   keywords |-> prefs.keywords,
   min_liquidity |-> prefs.min_liquidity,
   min_volume |-> prefs.min_volume,
   notify_on_launch |-> prefs.notify_on_launch,
   last_notified |->
     [id \in DOMAIN prefs.last_notified |-> Stringified(prefs.last_notified[id])]]

\* str(user_id), and int(user_id_str)
UserKey(u) == ToString(u)
UserOfKey(k) == CHOOSE u \in Users : ToString(u) = k

\* The members of the 'user_prefs' object, one per subscriber.  The order
\* in which a JSON object holds its members matters to load_data only when
\* a member is damaged, and save_data writes none that is: the model writes
\* them by ascending user id.
RECURSIVE Members(_, _)
Members(prefs, users) ==
  IF users = {} THEN <<>>
  ELSE LET u == CHOOSE v \in users : \A w \in users : v <= w
       IN  <<[key |-> UserKey(u), value |-> SerializedPreferences(prefs[u])]>>
             \o Members(prefs, users \ {u})

\* save_data: the whole state, written over the file
SavedFile(seen, prefs) ==
  [exists |-> TRUE,
   seen_markets |-> seen,
   user_prefs |-> Members(prefs, DOMAIN prefs)]

NoFile == [exists |-> FALSE, seen_markets |-> {}, user_prefs |-> <<>>]

\* The keys lines 102-110 read from a member
RequiredKeys ==
  {"enabled_categories", "keywords", "min_liquidity", "min_volume",
   "notify_on_launch", "last_notified"}

\* UserPreferences(...) of lines 102-110: last_notified is taken as the
\* file holds it, strings
LoadedPreferences(value) ==
  [enabled_categories |-> value.enabled_categories,
   keywords |-> value.keywords,
   min_liquidity |-> value.min_liquidity,
   min_volume |-> value.min_volume,
   notify_on_launch |-> value.notify_on_launch,
   last_notified |-> value.last_notified]

\* The loop of lines 100-110: the members are stored one by one, in the
\* order of the file; a member without one of the keys raises KeyError,
\* which ends load_data with what has been stored so far
RECURSIVE LoadMembers(_, _)
LoadMembers(members, loaded) ==
  IF members = <<>> THEN loaded
  ELSE IF ~(RequiredKeys \subseteq DOMAIN Head(members).value) THEN loaded
  ELSE LET u == UserOfKey(Head(members).key)
       IN  LoadMembers(Tail(members),
                       [v \in DOMAIN loaded \cup {u} |->
                          IF v = u THEN LoadedPreferences(Head(members).value)
                          ELSE loaded[v]])

\* load_data: line 97, then the loop; with no file nothing is loaded
LoadedSeen(file) == IF file.exists THEN file.seen_markets ELSE {}
LoadedPrefs(file) == IF file.exists THEN LoadMembers(file.user_prefs, NoUsers) ELSE NoUsers

\* --------------------------------------------------------------- filter
market_matches_preferences(market, prefs) ==
  IF prefs.enabled_categories # {} /\ market.category \notin prefs.enabled_categories
    THEN FALSE
  ELSE IF FloatLess(market.liquidity, prefs.min_liquidity) THEN FALSE
  ELSE IF FloatLess(market.volume, prefs.min_volume) THEN FALSE
  ELSE IF prefs.keywords # <<>>
          /\ ~ \E i \in 1..Len(prefs.keywords) :
                 IsSubstring(Lower(prefs.keywords[i]),
                             Lower(market.question \o <<" ">> \o market.description))
    THEN FALSE
  ELSE TRUE

\* ---------------------------------------------------------------- Init
\* The state after main() has built the bot and init() found no data file.
Init ==
  /\ seen_markets = {}
  /\ user_prefs = NoUsers
  /\ data_file = NoFile
  /\ now = 0
  /\ pc = "idle"
  /\ new_markets = <<>>
  /\ inflight = NoCall
  /\ seenAtStart = {}
  /\ usersAtStart = {}
  /\ api_data = NoResponse
  /\ cycleFetched = <<>>
  /\ cycleNew = <<>>
  /\ cycleAdded = {}
  /\ cycleAttempts = <<>>
  /\ lostInDispatch = {}
  /\ lastAlert = NoAlert
  /\ cycleRetry = {}
  /\ cycleDue = {}
  /\ delivered = [p \in Pairs |-> Never]
  /\ lastMatch = NoMatch

\* The event loop can run a handler: the process is up and the polling job
\* is not running or is suspended in its fetch.
EventLoopFree == pc \in {"idle", "fetching"}

\* ------------------------------------------------------ send_market_alert
\* An entry younger than the cooldown
Fresh(entry) == now - entry.at < COOLDOWN

\* AlertOutcome without the cooldown test of line 217
AlertOutcomeNoCooldown(u, market) ==
  IF u \notin DOMAIN user_prefs \/ ~user_prefs[u].notify_on_launch
    THEN "return213"
  ELSE IF ~market.expiry_aware THEN "TypeError222"
  ELSE "send"

\* AlertOutcome without the notify_on_launch test of line 212
AlertOutcomeIgnoringFlag(u, market) ==
  IF u \notin DOMAIN user_prefs
    THEN "return213"
  ELSE LET entries == user_prefs[u].last_notified
       IN  IF market.id \in DOMAIN entries /\ entries[market.id].str
             THEN "TypeError217"
           ELSE IF market.id \in DOMAIN entries /\ Fresh(entries[market.id])
             THEN "return218"
           ELSE IF ~market.expiry_aware
             THEN "TypeError222"
           ELSE "send"

\* Where send_market_alert goes before it reaches send_message:
\*   "return213"    no preferences, or alerts disabled
\*   "TypeError217" datetime.now() - <str>: the entry came from the data file
\*   "return218"    the cooldown suppresses the alert
\*   "TypeError222" naive expiry - datetime.now(pytz.UTC)
\*   "send"         send_message is called and awaited
AlertOutcome(u, market) ==
  IF u \notin DOMAIN user_prefs \/ ~user_prefs[u].notify_on_launch
    THEN "return213"
  ELSE LET entries == user_prefs[u].last_notified
       IN  IF market.id \in DOMAIN entries /\ entries[market.id].str
             THEN "TypeError217"
           ELSE IF market.id \in DOMAIN entries /\ Fresh(entries[market.id])
             THEN "return218"
           ELSE IF ~market.expiry_aware
             THEN "TypeError222"
           ELSE "send"

\* What the history records of a call
AlertRecord(u, market, caller, outcome) ==
  [user |-> u, id |-> market.id, caller |-> caller, outcome |-> outcome,
   notify |-> u \in DOMAIN user_prefs /\ user_prefs[u].notify_on_launch,
   fresh |-> /\ u \in DOMAIN user_prefs
             /\ market.id \in DOMAIN user_prefs[u].last_notified
             /\ Fresh(user_prefs[u].last_notified[market.id])]

\* send_market_alert up to the await of send_message
send_market_alert(u, market, caller) ==
  LET outcome == AlertOutcome(u, market)
  IN  /\ ~inflight.busy
      /\ inflight' = IF outcome = "send"
                       THEN [busy |-> TRUE, user |-> u, id |-> market.id,
                             caller |-> caller]
                       ELSE inflight
      /\ lastAlert' = AlertRecord(u, market, caller,
                                  IF outcome = "send" THEN "sending" ELSE outcome)
      /\ UNCHANGED <<seen_markets, user_prefs, data_file, now, pc, new_markets,
                     delivered, lostInDispatch>>
      /\ lastMatch' = NoMatch
      /\ UNCHANGED cycleHist

\* last_notified after a send that succeeded
Notified(prefs, id) ==
  [prefs EXCEPT !.last_notified =
     [k \in DOMAIN prefs.last_notified \cup {id} |->
        IF k = id THEN [str |-> FALSE, at |-> now] ELSE prefs.last_notified[k]]]

\* AfterSend with line 246 moved out of the try block
AfterSendAlways(prefs, id, ok) == Notified(prefs, id)

\* What send_market_alert does to the preferences once send_message has
\* returned (ok) or raised
AfterSend(prefs, id, ok) == IF ok THEN Notified(prefs, id) ELSE prefs

\* send_message returns or raises; send_market_alert records the time or
\* logs the failure
send_message_ends(ok) ==
  /\ EventLoopFree
  /\ inflight.busy
  /\ LET u == inflight.user
         id == inflight.id
     IN  /\ user_prefs' = [user_prefs EXCEPT ![u] = AfterSend(user_prefs[u], id, ok)]
         /\ delivered' = IF ok THEN [delivered EXCEPT ![<<u, id>>] = now]
                         ELSE delivered
         /\ lastAlert' =
              [user |-> u, id |-> id, caller |-> inflight.caller,
               outcome |-> IF ok THEN "sent" ELSE "failed",
               notify |-> user_prefs[u].notify_on_launch,
               fresh |-> /\ id \in DOMAIN user_prefs[u].last_notified
                         /\ Fresh(user_prefs[u].last_notified[id])]
  /\ inflight' = NoCall
  /\ UNCHANGED <<seen_markets, data_file, now, pc, new_markets, lostInDispatch>>
  /\ lastMatch' = NoMatch
  /\ UNCHANGED cycleHist

\* ------------------------------------------------------ check_new_markets
\* The job starts and awaits fetch_markets
check_new_markets_starts ==
  /\ pc = "idle"
  /\ pc' = "fetching"
  /\ seenAtStart' = seen_markets
  /\ usersAtStart' = DOMAIN user_prefs
  /\ cycleRetry' = IF lastAlert.outcome = "failed"
                     THEN {<<lastAlert.user, lastAlert.id>>} ELSE {}
  /\ cycleDue' = {p \in Pairs : delivered[p] # Never /\ now - delivered[p] >= COOLDOWN}
  /\ lastAlert' = NoAlert
  /\ lastMatch' = NoMatch
  /\ UNCHANGED <<seen_markets, user_prefs, data_file, now, new_markets, inflight,
                 api_data, cycleFetched, cycleNew, cycleAdded, cycleAttempts,
                 lostInDispatch, delivered>>

\* NewMarkets without the test against the ledger
NewMarketsUnfiltered(markets, seen) == markets

\* [m for m in markets if m.id not in self.seen_markets]
RECURSIVE NewMarkets(_, _)
NewMarkets(markets, seen) ==
  IF markets = <<>> THEN <<>>
  ELSE IF Head(markets).id \notin seen
    THEN <<Head(markets)>> \o NewMarkets(Tail(markets), seen)
  ELSE NewMarkets(Tail(markets), seen)

\* The GET ends, fetch_markets returns; new_markets is computed
check_new_markets_fetched(response) ==
  /\ pc = "fetching"
  /\ pc' = "dispatch"
  /\ api_data' = response
  /\ cycleFetched' = fetch_markets(response)
  /\ new_markets' = NewMarkets(cycleFetched', seen_markets)
  /\ cycleNew' = new_markets'
  /\ lastAlert' = NoAlert
  /\ lastMatch' = NoMatch
  /\ UNCHANGED <<seen_markets, user_prefs, data_file, now, inflight,
                 seenAtStart, usersAtStart, cycleAdded, cycleAttempts, cycleRetry,
                 cycleDue, lostInDispatch, delivered>>

\* The loop over the subscribers for one new market.  The name it calls,
\* self.mark_matches_preferences, is not an attribute of the bot (the method
\* is market_matches_preferences): with no subscriber the loop does nothing,
\* with one or more its first turn raises AttributeError, and
\* send_market_alert is not called.
SubscriberLoop(market) ==
  IF DOMAIN user_prefs = {}
    THEN [raised |-> FALSE, calls |-> <<>>]
    ELSE [raised |-> TRUE, calls |-> <<>>]

\* One turn of the loop over new_markets
check_new_markets_market ==
  /\ pc = "dispatch"
  /\ new_markets # <<>>
  /\ seen_markets' = seen_markets \cup {Head(new_markets).id}
  /\ cycleAdded' = cycleAdded \cup {Head(new_markets).id}
  /\ LET loop == SubscriberLoop(Head(new_markets))
     IN  /\ cycleAttempts' = cycleAttempts \o loop.calls
         /\ IF loop.raised
              THEN pc' = "raised" /\ new_markets' = <<>>
              ELSE pc' = pc /\ new_markets' = Tail(new_markets)
  /\ lastMatch' = NoMatch
  /\ UNCHANGED <<user_prefs, data_file, now, inflight,
                 seenAtStart, usersAtStart, api_data, cycleFetched, cycleNew,
                 cycleRetry, cycleDue, lostInDispatch, lastAlert, delivered>>

\* The loop is over: save_data
check_new_markets_saves ==
  /\ pc = "dispatch"
  /\ new_markets = <<>>
  /\ data_file' = SavedFile(seen_markets, user_prefs)
  /\ pc' = "done"
  /\ UNCHANGED <<seen_markets, user_prefs, now, new_markets, inflight,
                 lostInDispatch, lastAlert, cycleRetry, cycleDue, delivered>>
  /\ lastMatch' = NoMatch
  /\ UNCHANGED cycleHist

\* check_new_markets returns, or its exception reaches the job queue, which
\* logs it; the job is scheduled again
check_new_markets_ends ==
  /\ pc \in {"done", "raised"}
  /\ pc' = "idle"
  /\ seenAtStart' = {}
  /\ cycleFetched' = <<>>
  /\ cycleNew' = <<>>
  /\ cycleAdded' = {}
  /\ cycleAttempts' = <<>>
  /\ usersAtStart' = {}
  /\ api_data' = NoResponse
  /\ lastMatch' = NoMatch
  /\ UNCHANGED <<seen_markets, user_prefs, data_file, now, new_markets, inflight,
                 lostInDispatch, lastAlert, cycleRetry, cycleDue, delivered>>

\* --------------------------------------------------------------- commands
cmd_start(u) ==
  /\ EventLoopFree
  /\ u \notin DOMAIN user_prefs
  /\ user_prefs' = [v \in DOMAIN user_prefs \cup {u} |->
                      IF v = u THEN DefaultPreferences ELSE user_prefs[v]]
  /\ data_file' = SavedFile(seen_markets, user_prefs')
  /\ lastAlert' = NoAlert
  /\ UNCHANGED <<seen_markets, now, pc, new_markets, inflight, lostInDispatch,
                 delivered>>
  /\ lastMatch' = NoMatch
  /\ UNCHANGED cycleHist

cmd_keywords(u, keywords) ==
  /\ EventLoopFree
  /\ u \in DOMAIN user_prefs
  /\ user_prefs' = [user_prefs EXCEPT ![u].keywords = keywords]
  /\ data_file' = SavedFile(seen_markets, user_prefs')
  /\ lastAlert' = NoAlert
  /\ UNCHANGED <<seen_markets, now, pc, new_markets, inflight, lostInDispatch,
                 delivered>>
  /\ lastMatch' = NoMatch
  /\ UNCHANGED cycleHist

\* handle_callback, data == "toggle_alerts"
handle_callback_toggle_alerts(u) ==
  /\ EventLoopFree
  /\ u \in DOMAIN user_prefs
  /\ user_prefs' = [user_prefs EXCEPT
                      ![u].notify_on_launch = ~user_prefs[u].notify_on_launch]
  /\ data_file' = SavedFile(seen_markets, user_prefs')
  /\ lastAlert' = NoAlert
  /\ UNCHANGED <<seen_markets, now, pc, new_markets, inflight, lostInDispatch,
                 delivered>>
  /\ lastMatch' = NoMatch
  /\ UNCHANGED cycleHist

\* /filters argument lists
FilterInputs ==
  {<<"750.00", "1500.01">>, <<"abc", "0">>, <<"0", "abc">>, <<"nan", "0">>, <<"0">>}

\* With two arguments or more that float() accepts, both thresholds are set
\* and the state is saved; otherwise a reply is all there is
cmd_filters(u, args) ==
  /\ EventLoopFree
  /\ u \in DOMAIN user_prefs
  /\ IF Len(args) >= 2 /\ args[1] \in DOMAIN FloatOf /\ args[2] \in DOMAIN FloatOf
       THEN /\ user_prefs' = [user_prefs EXCEPT ![u].min_liquidity = FloatOf[args[1]],
                                                ![u].min_volume = FloatOf[args[2]]]
            /\ data_file' = SavedFile(seen_markets, user_prefs')
       ELSE UNCHANGED <<user_prefs, data_file>>
  /\ lastAlert' = NoAlert
  /\ UNCHANGED <<seen_markets, now, pc, new_markets, inflight, lostInDispatch,
                 delivered>>
  /\ lastMatch' = NoMatch
  /\ UNCHANGED cycleHist

\* data[4:] for the callback data that start with "cat_": the buttons of
\* show_category_menu carry "cat_" and a key of CATEGORIES, the Categories
\* button of cmd_settings carries "cat_menu"
CategoryOfData ==
  [data \in {"cat_crypto", "cat_politics", "cat_menu"} |->
     CASE data = "cat_crypto" -> "crypto"
       [] data = "cat_politics" -> "politics"
       [] data = "cat_menu" -> "menu"]

\* handle_callback, data.startswith("cat_"): the category is taken out of
\* the set when it is in it and put in when it is not
handle_callback_cat(u, data) ==
  /\ EventLoopFree
  /\ data \in DOMAIN CategoryOfData
  /\ u \in DOMAIN user_prefs
  /\ LET category == CategoryOfData[data]
         enabled == user_prefs[u].enabled_categories
     IN  user_prefs' = [user_prefs EXCEPT ![u].enabled_categories =
                          IF category \in enabled THEN enabled \ {category}
                          ELSE enabled \cup {category}]
  /\ data_file' = SavedFile(seen_markets, user_prefs')
  /\ lastAlert' = NoAlert
  /\ UNCHANGED <<seen_markets, now, pc, new_markets, inflight, lostInDispatch,
                 delivered>>
  /\ lastMatch' = NoMatch
  /\ UNCHANGED cycleHist

\* What the buttons carry: the category buttons and the Back button of
\* show_category_menu, the four buttons of cmd_settings
CallbackData ==
  DOMAIN CategoryOfData \cup {"toggle_alerts", "set_keywords", "set_filters",
                              "back_settings"}

\* The pattern of setup_handlers that the data match, "none" when no
\* CallbackQueryHandler is registered for them
PatternOf ==
  [data \in CallbackData |->
     CASE data \in DOMAIN CategoryOfData -> "^cat_"
       [] data = "toggle_alerts" -> "^toggle_"
       [] data \in {"set_keywords", "set_filters"} -> "^set_"
       [] OTHER -> "none"]

\* handle_callback, data == "set_keywords" or "set_filters": the message is
\* edited to a usage text
handle_callback_set(u, data) ==
  /\ EventLoopFree
  /\ data \in {"set_keywords", "set_filters"}
  /\ lastAlert' = NoAlert
  /\ UNCHANGED <<seen_markets, user_prefs, data_file, now, pc, new_markets,
                 inflight, lostInDispatch, delivered>>
  /\ lastMatch' = NoMatch
  /\ UNCHANGED cycleHist

\* handle_callback: the branches in the order of the if chain.  The test of
\* line 499 takes every data that start with "cat_", "cat_menu" too, so
\* the branch of line 513 is never reached; a subscriber without
\* preferences changes nothing
handle_callback(u, data) ==
  IF data \in DOMAIN CategoryOfData
    THEN handle_callback_cat(u, data)
  ELSE IF data = "toggle_alerts"
    THEN handle_callback_toggle_alerts(u)
  ELSE handle_callback_set(u, data)

\* A button is pressed: the application calls handle_callback when a
\* registered pattern matches the data and drops the update when none does
callback_query(u, data) ==
  IF PatternOf[data] # "none"
    THEN handle_callback(u, data)
  ELSE /\ EventLoopFree
       /\ lastAlert' = NoAlert
       /\ UNCHANGED <<seen_markets, user_prefs, data_file, now, pc, new_markets,
                      inflight, lostInDispatch, delivered>>
       /\ lastMatch' = NoMatch
       /\ UNCHANGED cycleHist

cmd_test_alert(u) ==
  /\ EventLoopFree
  /\ send_market_alert(u, TestMarket, "test")

\* ------------------------------------------------------------ environment
\* The process is killed: what was in memory is gone (__init__), the data
\* file stays as it is
Crash ==
  /\ pc # "down"
  /\ pc' = "down"
  /\ seen_markets' = {}
  /\ user_prefs' = NoUsers
  /\ new_markets' = <<>>
  /\ inflight' = NoCall
  /\ lostInDispatch' = IF pc = "dispatch" THEN lostInDispatch \cup cycleAdded
                       ELSE lostInDispatch
  /\ seenAtStart' = {}
  /\ cycleFetched' = <<>>
  /\ cycleNew' = <<>>
  /\ cycleAdded' = {}
  /\ cycleAttempts' = <<>>
  /\ lastAlert' = NoAlert
  /\ cycleRetry' = {}
  /\ cycleDue' = {}
  /\ delivered' = [p \in Pairs |-> Never]
  /\ usersAtStart' = {}
  /\ api_data' = NoResponse
  /\ lastMatch' = NoMatch
  /\ UNCHANGED <<data_file, now>>

\* The process is started again: init() calls load_data
init ==
  /\ pc = "down"
  /\ pc' = "idle"
  /\ seen_markets' = LoadedSeen(data_file)
  /\ user_prefs' = LoadedPrefs(data_file)
  /\ UNCHANGED <<data_file, now, new_markets, inflight, lostInDispatch,
                 lastAlert, delivered>>
  /\ lastMatch' = NoMatch
  /\ UNCHANGED cycleHist

\* Half an hour passes
Tick ==
  /\ EventLoopFree
  /\ now < MaxTime
  /\ now' = now + 1
  /\ lastAlert' = NoAlert
  /\ UNCHANGED <<seen_markets, user_prefs, data_file, pc, new_markets, inflight,
                 lostInDispatch, delivered>>
  /\ lastMatch' = NoMatch
  /\ UNCHANGED cycleHist

\* ---------------------------------------------------------- specification
\* The polling job
Cycle ==
  \/ check_new_markets_starts
  \/ \E response \in Responses : check_new_markets_fetched(response)
  \/ check_new_markets_market
  \/ check_new_markets_saves
  \/ check_new_markets_ends

\* The program, killed and started again at any point.  No step it can take
\* stores a time, so the clock stands still here.
Next ==
  \/ Cycle
  \/ \E u \in Users : cmd_start(u)
  \/ \E u \in Users : \E keywords \in KeywordInputs : cmd_keywords(u, keywords)
  \/ \E u \in Users : handle_callback_toggle_alerts(u)
  \/ \E u \in Users : cmd_test_alert(u)
  \/ Crash
  \/ init

Spec == Init /\ [][Next]_vars

\* send_market_alert called for a parsed market, as the loop over the
\* subscribers is written to call it, one call at a time
send_market_alert_call(u, market) ==
  /\ EventLoopFree
  /\ send_market_alert(u, market, "dispatch")

\* One run of the process with the clock running, the polling job left
\* out, and send_market_alert also called on its own
NextAlert ==
  \/ \E u \in Users : cmd_start(u)
  \/ \E u \in Users : handle_callback_toggle_alerts(u)
  \/ \E u \in Users : cmd_test_alert(u)
  \/ \E u \in Users : \E market \in ApiMarkets : send_market_alert_call(u, market)
  \/ \E ok \in BOOLEAN : send_message_ends(ok)
  \/ Tick

SpecAlert == Init /\ [][NextAlert]_vars

\* The same with the polling job
NextDispatch ==
  \/ Cycle
  \/ NextAlert

SpecDispatch == Init /\ [][NextDispatch]_vars

\* SpecAlert with the process killed and started again
NextRestart ==
  \/ NextAlert
  \/ Crash
  \/ init

SpecRestart == Init /\ [][NextRestart]_vars

\* A member of the 'user_prefs' object as save_data writes it for a new
\* subscriber, and one that lacks the key 'keywords'
GoodMember(u) ==
  [key |-> UserKey(u), value |-> SerializedPreferences(DefaultPreferences)]

DamagedMember(u) ==
  [key |-> UserKey(u),
   value |-> [enabled_categories |-> CATEGORIES,
              min_liquidity |-> 0,
              min_volume |-> 0,
              notify_on_launch |-> TRUE,
              last_notified |-> NoEntries]]

\* Lists of members, one member at most per subscriber, in any order
RECURSIVE MemberLists(_)
MemberLists(users) ==
  {<<>>} \cup
  UNION {{<<m>> \o rest : m \in {GoodMember(u), DamagedMember(u)},
                          rest \in MemberLists(users \ {u})} : u \in users}

\* The data files load_data may find at startup
StoredFiles ==
  {NoFile} \cup
  {[exists |-> TRUE, seen_markets |-> seen, user_prefs |-> members] :
     seen \in {{}, {ApiMarket1.id}}, members \in MemberLists(Users)}

\* The process is started on any of the data files
InitStore ==
  /\ seen_markets = {}
  /\ user_prefs = NoUsers
  /\ data_file \in StoredFiles
  /\ now = 0
  /\ pc = "down"
  /\ new_markets = <<>>
  /\ inflight = NoCall
  /\ seenAtStart = {}
  /\ usersAtStart = {}
  /\ api_data = NoResponse
  /\ cycleFetched = <<>>
  /\ cycleNew = <<>>
  /\ cycleAdded = {}
  /\ cycleAttempts = <<>>
  /\ lostInDispatch = {}
  /\ lastAlert = NoAlert
  /\ cycleRetry = {}
  /\ cycleDue = {}
  /\ delivered = [p \in Pairs |-> Never]
  /\ lastMatch = NoMatch

NextStore ==
  \/ init
  \/ \E u \in Users : cmd_start(u)
  \/ \E u \in Users : \E keywords \in KeywordInputs : cmd_keywords(u, keywords)
  \/ \E u \in Users : handle_callback_toggle_alerts(u)
  \/ Crash

SpecStore == InitStore /\ [][NextStore]_vars

\* The configuration commands of one run of the process
NextConfig ==
  \/ \E u \in Users : cmd_start(u)
  \/ \E u \in Users : \E keywords \in KeywordInputs : cmd_keywords(u, keywords)
  \/ \E u \in Users : \E args \in FilterInputs : cmd_filters(u, args)
  \/ \E u \in Users : \E data \in DOMAIN CategoryOfData : handle_callback_cat(u, data)
  \/ \E u \in Users : handle_callback_toggle_alerts(u)

SpecConfig == Init /\ [][NextConfig]_vars

\* The commands and every button of one run of the process
NextCallback ==
  \/ \E u \in Users : cmd_start(u)
  \/ \E u \in Users : \E keywords \in KeywordInputs : cmd_keywords(u, keywords)
  \/ \E u \in Users : \E args \in FilterInputs : cmd_filters(u, args)
  \/ \E u \in Users : \E data \in CallbackData : callback_query(u, data)

SpecCallback == Init /\ [][NextCallback]_vars

\* Preferences the commands can leave a subscriber with
PreferenceInputs ==
  {[enabled_categories |-> categories, keywords |-> keywords,
    min_liquidity |-> min_liquidity, min_volume |-> min_volume,
    notify_on_launch |-> TRUE, last_notified |-> NoEntries] :
     categories \in {{}, {"crypto"}, CATEGORIES},
     keywords \in {<<>>, << <<"b", "T", "c">> >>, << <<"x">>, <<"C", " ", "u">> >>},
     min_liquidity \in {0, 75000, 75001, NaN},
     min_volume \in {0, 150001}}

\* A call of market_matches_preferences
market_matches_preferences_call(u, market) ==
  /\ u \in DOMAIN user_prefs
  /\ lastMatch' = [called |-> TRUE, market |-> market, user |-> u,
                   result |-> market_matches_preferences(market, user_prefs[u])]
  /\ UNCHANGED <<seen_markets, user_prefs, data_file, now, pc, new_markets,
                 inflight, lostInDispatch, lastAlert, delivered>>
  /\ UNCHANGED cycleHist

\* One subscriber with any of the preferences
InitMatch ==
  /\ seen_markets = {}
  /\ user_prefs \in {[u \in {1} |-> prefs] : prefs \in PreferenceInputs}
  /\ data_file = NoFile
  /\ now = 0
  /\ pc = "idle"
  /\ new_markets = <<>>
  /\ inflight = NoCall
  /\ seenAtStart = {}
  /\ usersAtStart = {}
  /\ api_data = NoResponse
  /\ cycleFetched = <<>>
  /\ cycleNew = <<>>
  /\ cycleAdded = {}
  /\ cycleAttempts = <<>>
  /\ lostInDispatch = {}
  /\ lastAlert = NoAlert
  /\ cycleRetry = {}
  /\ cycleDue = {}
  /\ delivered = [p \in Pairs |-> Never]
  /\ lastMatch = NoMatch

NextMatch ==
  \E u \in Users : \E market \in {ApiMarket1, ApiMarket2, ApiMarket3} :
    market_matches_preferences_call(u, market)

SpecMatch == InitMatch /\ [][NextMatch]_vars

\* The polling job alone, its GET coming to any of the raw responses
NextParse ==
  \/ check_new_markets_starts
  \/ \E response \in RawResponses : check_new_markets_fetched(response)
  \/ check_new_markets_market
  \/ check_new_markets_saves
  \/ check_new_markets_ends
  \/ \E u \in Users : cmd_start(u)

SpecParse == Init /\ [][NextParse]_vars

\* ------------------------------------------------------------ properties
InCycleBody == pc \in {"dispatch", "done", "raised"}

CycleOver == pc \in {"done", "raised"}

\* How many times the running cycle passed the pair to send_message
Attempts(pair) ==
  Cardinality({j \in 1..Len(cycleAttempts) : cycleAttempts[j] = pair})

Fetched(id) == \E i \in 1..Len(cycleFetched) : cycleFetched[i].id = id

\* C1: within one run of the process the ledger never loses an identifier,
\* and a fetched market whose identifier was in the ledger when the cycle
\* started is neither in that cycle's new_markets nor dispatched by it.
C1_LedgerKeepsAndExcludes ==
  /\ [](InCycleBody =>
          /\ \A i \in 1..Len(cycleNew) : cycleNew[i].id \notin seenAtStart
          /\ \A j \in 1..Len(cycleAttempts) : cycleAttempts[j][2] \notin seenAtStart)
  /\ [][(pc # "down" /\ pc' # "down") => seen_markets \subseteq seen_markets']_vars

\* A cycle fetched a market that was already in the ledger together with one
\* that was not, and kept only the second.
C1_Witness ==
  /\ pc = "dispatch"
  /\ \E i \in 1..Len(cycleFetched) : cycleFetched[i].id \in seenAtStart
  /\ cycleNew # <<>>
  /\ Len(cycleNew) < Len(cycleFetched)

\* C2: when a cycle is over, every new market has been passed to
\* send_message for every subscriber whose preferences match it, whose
\* alerts are enabled and who has no entry for it younger than the cooldown.
C2_EveryMatchIsDispatched ==
  CycleOver =>
    \A i \in 1..Len(cycleNew) : \A u \in DOMAIN user_prefs :
      ( /\ market_matches_preferences(cycleNew[i], user_prefs[u])
        /\ user_prefs[u].notify_on_launch
        /\ ~ ( /\ cycleNew[i].id \in DOMAIN user_prefs[u].last_notified
               /\ Fresh(user_prefs[u].last_notified[cycleNew[i].id]) ) )
      => Attempts(<<u, cycleNew[i].id>>) >= 1

\* C3: a market that a cycle added to the ledger before the process was
\* killed in the dispatch phase is not classified as new by a cycle after
\* the restart.
C3_NotNewAgainAfterCrash ==
  InCycleBody => \A i \in 1..Len(cycleNew) : cycleNew[i].id \notin lostInDispatch

\* C4: send_market_alert does not reach send_message for a pair whose
\* last_notified entry is younger than the cooldown, and two sends to the
\* same pair that succeed are at least a cooldown apart.
C4_CooldownHolds ==
  /\ [](lastAlert.outcome = "sending" => ~lastAlert.fresh)
  /\ [][\A p \in Pairs :
          (delivered[p] # Never /\ delivered'[p] # Never /\ delivered'[p] # delivered[p])
          => delivered'[p] - delivered[p] >= COOLDOWN]_vars

\* A call for a pair that was notified less than a cooldown ago returned at
\* line 218.
C4_Witness ==
  /\ lastAlert.outcome = "return218"
  /\ lastAlert.fresh
  /\ delivered[<<lastAlert.user, lastAlert.id>>] # Never

\* C5: a cycle that starts a cooldown or more after a subscriber was
\* notified of a market, and that fetches the market while it still matches,
\* passes the pair to send_message exactly once.
C5_OneMoreSendAfterCooldown ==
  CycleOver =>
    \A p \in cycleDue : \A i \in 1..Len(cycleFetched) :
      ( /\ cycleFetched[i].id = p[2]
        /\ p[1] \in DOMAIN user_prefs
        /\ user_prefs[p[1]].notify_on_launch
        /\ market_matches_preferences(cycleFetched[i], user_prefs[p[1]]) )
      => Attempts(p) = 1

C7_OneRetryAfterFailure ==
  CycleOver =>
    \A p \in cycleRetry : Fetched(p[2]) => Attempts(p) = 1

\* C8: a call of send_market_alert for a subscriber whose notify_on_launch
\* is false does not reach send_message, whatever the market and whoever
\* calls, and leaves every last_notified map as it was.
C8_DisabledNeverSent ==
  /\ [](lastAlert.outcome = "sending" => lastAlert.notify)
  /\ [][(lastAlert'.outcome \notin {"none", "sent", "failed"} /\ ~lastAlert'.notify)
          => (user_prefs' = user_prefs /\ inflight' = inflight)]_vars

\* A subscriber with alerts disabled was passed a market that matches the
\* preferences and would otherwise have been sent; the call returned at
\* line 213.
C8_Witness ==
  /\ lastAlert.outcome = "return213"
  /\ lastAlert.user \in DOMAIN user_prefs
  /\ ~user_prefs[lastAlert.user].notify_on_launch
  /\ lastAlert.id = ApiMarket1.id
  /\ market_matches_preferences(ApiMarket1, user_prefs[lastAlert.user])

\* C9: no exception leaves check_new_markets: every cycle gets to its
\* save_data.
C9_NoExceptionLeavesCycle == pc # "raised"

FetchFailed(response) == response.kind \in {"timeout", "status", "malformed"}

\* C11: a cycle whose fetch fails changes neither the ledger nor any
\* subscriber's preferences, and passes nothing to send_message.
C11_FailedFetchChangesNothing ==
  /\ []((InCycleBody /\ FetchFailed(api_data)) =>
          /\ seen_markets = seenAtStart
          /\ cycleNew = <<>>
          /\ cycleAttempts = <<>>
          /\ ~inflight.busy)
  /\ [][(FetchFailed(api_data') /\ pc \in {"fetching", "dispatch"} /\ pc' # "down")
          => (seen_markets' = seen_markets /\ user_prefs' = user_prefs
              /\ inflight' = inflight)]_vars

\* A cycle started with a ledger and a subscriber, got a status other than
\* 200 with records in the body, and has reached its save_data.
C11_Witness ==
  /\ pc = "done"
  /\ api_data.kind = "status"
  /\ api_data.body # <<>>
  /\ seenAtStart # {}
  /\ usersAtStart # {}
  /\ seen_markets = seenAtStart

\* C12: parse_markets never raises, and every record of a batch that is
\* well formed is returned to the cycle as a Market, whatever the other
\* records of the batch are.
C12_BadRecordsDroppedAlone ==
  (InCycleBody /\ api_data.kind = "ok") =>
    /\ ~parse_markets(api_data.body).raised
    /\ \A i \in 1..Len(api_data.body) :
         MarketException(api_data.body[i]) = "none"
           => \E j \in 1..Len(cycleFetched) :
                cycleFetched[j] = MarketOf(api_data.body[i])

\* C19: every Market that parse_markets returns has a category of the fixed
\* set, so the default preferences match every parsed market.
C19_CategoryIsOfTheFixedSet ==
  InCycleBody =>
    \A j \in 1..Len(cycleFetched) :
      /\ cycleFetched[j].category \in CATEGORIES
      /\ market_matches_preferences(cycleFetched[j], DefaultPreferences)

\* C13: what load_data reads from a file that save_data has just written is
\* the ledger and the preferences save_data was given, every last_notified
\* entry a timestamp as before.
C13_SaveThenLoadIsIdentity ==
  [][data_file' # data_file =>
       /\ LoadedSeen(data_file') = seen_markets'
       /\ LoadedPrefs(data_file') = user_prefs']_vars

\* The subscribers whose members the file holds
StoredUsers(file) == {UserOfKey(file.user_prefs[i].key) : i \in 1..Len(file.user_prefs)}

\* C18: load_data leaves the store either with the ledger and every
\* subscriber of the file or with nothing of the file.
C18_LoadIsAllOrNothing ==
  [][(pc = "down" /\ pc' = "idle" /\ data_file.exists) =>
       \/ /\ seen_markets' = data_file.seen_markets
          /\ DOMAIN user_prefs' = StoredUsers(data_file)
       \/ /\ seen_markets' = {}
          /\ user_prefs' = NoUsers]_vars

\* C20: a call of send_market_alert for a pair whose last_notified entry
\* was loaded from the data file raises nothing: it returns at line 218 when
\* the entry is younger than the cooldown and reaches send_message when it
\* is not.
C20_CooldownSurvivesRestart ==
  \A u \in DOMAIN user_prefs :
    ( /\ lastAlert.outcome \notin {"none", "sent", "failed"}
      /\ lastAlert.user = u
      /\ lastAlert.caller = "dispatch"
      /\ user_prefs[u].notify_on_launch
      /\ lastAlert.id \in DOMAIN user_prefs[u].last_notified
      /\ user_prefs[u].last_notified[lastAlert.id].str )
    => lastAlert.outcome =
         IF Fresh(user_prefs[u].last_notified[lastAlert.id])
           THEN "return218" ELSE "sending"

\* a >= b on floats
FloatAtLeast(a, b) == a # NaN /\ b # NaN /\ a >= b

\* The four predicates of the filter
CategoryHolds(market, prefs) ==
  prefs.enabled_categories = {} \/ market.category \in prefs.enabled_categories

LiquidityHolds(market, prefs) == FloatAtLeast(market.liquidity, prefs.min_liquidity)

VolumeHolds(market, prefs) == FloatAtLeast(market.volume, prefs.min_volume)

KeywordHolds(market, prefs) ==
  \/ prefs.keywords = <<>>
  \/ \E i \in 1..Len(prefs.keywords) :
       IsSubstring(Lower(prefs.keywords[i]),
                   Lower(market.question \o <<" ">> \o market.description))

\* C14: market_matches_preferences returns true exactly when the category,
\* liquidity, volume and keyword predicates all hold, and changes no state.
C14_MatchIsTheConjunction ==
  /\ [](lastMatch.called =>
          lastMatch.result =
            ( /\ CategoryHolds(lastMatch.market, user_prefs[lastMatch.user])
              /\ LiquidityHolds(lastMatch.market, user_prefs[lastMatch.user])
              /\ VolumeHolds(lastMatch.market, user_prefs[lastMatch.user])
              /\ KeywordHolds(lastMatch.market, user_prefs[lastMatch.user]) ))
  /\ [][lastMatch'.called =>
          (user_prefs' = user_prefs /\ seen_markets' = seen_markets
           /\ data_file' = data_file)]_vars

\* C17: a category callback changes enabled_categories by a category of the
\* fixed set only, and so every subscriber's enabled_categories stays inside
\* the fixed set.
C17_InvalidValuesChangeNothing ==
  /\ [](\A u \in DOMAIN user_prefs :
          user_prefs[u].enabled_categories \subseteq CATEGORIES)
  /\ [][\A u \in DOMAIN user_prefs \cap DOMAIN user_prefs' :
          LET before == user_prefs[u].enabled_categories
              after == user_prefs'[u].enabled_categories
          IN  (before \ after) \cup (after \ before) \subseteq CATEGORIES]_vars

\* C16: a cycle during which a subscriber registered does not fail, has
\* passed to send_message every new market for every subscriber that was
\* registered when it started and that the market matches, and has lost no
\* subscriber.
C16_CommandsDoNotDisturbTheCycle ==
  (CycleOver /\ usersAtStart # {} /\ usersAtStart # DOMAIN user_prefs) =>
    /\ pc # "raised"
    /\ usersAtStart \subseteq DOMAIN user_prefs
    /\ \A u \in usersAtStart : \A i \in 1..Len(cycleNew) :
         ( /\ market_matches_preferences(cycleNew[i], user_prefs[u])
           /\ user_prefs[u].notify_on_launch )
         => Attempts(<<u, cycleNew[i].id>>) >= 1

\* C21: /test never changes the ledger; called by a subscriber whose alerts
\* are enabled and who has no last_notified entry for the test market
\* younger than the cooldown, it passes the test market to send_message,
\* and a send that succeeds records last_notified for the test market.
C21_TestAlertSendsOnce ==
  /\ []((/\ lastAlert.caller = "test"
         /\ lastAlert.outcome \notin {"sent", "failed"}
         /\ lastAlert.notify
         /\ ~lastAlert.fresh)
        => lastAlert.outcome = "sending")
  /\ [][lastAlert'.caller = "test" =>
          /\ seen_markets' = seen_markets
          /\ lastAlert'.outcome = "sent" =>
               /\ TestMarket.id \in DOMAIN user_prefs'[lastAlert'.user].last_notified
               /\ user_prefs'[lastAlert'.user].last_notified[TestMarket.id] =
                    [str |-> FALSE, at |-> now]]_vars

\* The buttons that only lead to another menu or to a usage text
NavigationData == {"cat_menu", "set_keywords", "set_filters", "back_settings"}

\* The categories of a and b differ by exactly one category
OneCategoryApart(a, b) ==
  Cardinality((a \ b) \cup (b \ a)) = 1

\* C22: a press of a navigation button (cat_menu, set_keywords, set_filters,
\* back_settings) leaves every subscriber's preferences as they were; a
\* press of a category button changes one category membership of the
\* presser, a press of toggle_alerts the presser's notify_on_launch, and
\* neither anything else of the preferences; no press changes the ledger.
C22_OnlyTogglesChangePreferences ==
  [][\A u \in Users : \A data \in CallbackData :
       callback_query(u, data) =>
         /\ seen_markets' = seen_markets
         /\ DOMAIN user_prefs' = DOMAIN user_prefs
         /\ \A v \in DOMAIN user_prefs \ {u} : user_prefs'[v] = user_prefs[v]
         /\ data \in NavigationData => user_prefs' = user_prefs
         /\ (data = "toggle_alerts" /\ u \in DOMAIN user_prefs) =>
              user_prefs'[u] = [user_prefs[u] EXCEPT
                                  !.notify_on_launch = ~user_prefs[u].notify_on_launch]
         /\ (data \in DOMAIN CategoryOfData \ NavigationData
               /\ u \in DOMAIN user_prefs) =>
              /\ user_prefs'[u] = [user_prefs[u] EXCEPT
                                     !.enabled_categories =
                                        user_prefs'[u].enabled_categories]
              /\ OneCategoryApart(user_prefs[u].enabled_categories,
                                  user_prefs'[u].enabled_categories)]_vars

====
